---- MODULE Spec2Model ----
(***************************************************************************)
(* A model of spider_chart/_spider.py: input normalisation                 *)
(* (_format_input_data), the angular mapping (_compute_theta), the axes    *)
(* check (_ensure_axes), the post-processing of the line artists           *)
(* (_fill_and_close), spiderplot and spiderplot_facet.                     *)
(*                                                                         *)
(* Numbers that the code computes in floating point are modelled as exact  *)
(* rationals <<p, q>> (q > 0, lowest terms); <<0, 0>> is NaN.  Angles are  *)
(* fractions of a full turn (2*pi).  Python's None is the record NoneV for *)
(* x/y/extent arguments, the string "None" for keys and names, and the     *)
(* empty sequence for optional integers.                                   *)
(***************************************************************************)
EXTENDS Integers, Sequences, FiniteSets, TLC

VARIABLES pc, args, heap, ret, axes, gca, ncalls

vars == <<pc, args, heap, ret, axes, gca, ncalls>>

----------------------------------------------------------------------------
(* Bounds of the model *)

MaxLen == 3

MaxHint == 4

----------------------------------------------------------------------------
(* Exact arithmetic standing for the code's floating point *)

Abs(n) == IF n < 0 THEN 0 - n ELSE n

RECURSIVE GCD(_, _)
GCD(a, b) == IF b = 0 THEN a ELSE GCD(b, a % b)

NaN == <<0, 0>>

IsNaN(r) == r[2] = 0

Frac(p, q) ==
    IF q = 0 THEN NaN
    ELSE LET g == GCD(Abs(p), Abs(q))
             s == IF q < 0 THEN 0 - 1 ELSE 1
         IN  <<(s * p) \div g, (s * q) \div g>>

Num(n) == <<n, 1>>

RAdd(a, b) == IF IsNaN(a) \/ IsNaN(b) THEN NaN
              ELSE Frac(a[1] * b[2] + b[1] * a[2], a[2] * b[2])

RSub(a, b) == IF IsNaN(a) \/ IsNaN(b) THEN NaN
              ELSE Frac(a[1] * b[2] - b[1] * a[2], a[2] * b[2])

RMul(a, b) == IF IsNaN(a) \/ IsNaN(b) THEN NaN
              ELSE Frac(a[1] * b[1], a[2] * b[2])

\* a/b; 0/0 is NaN as in numpy (no other division by zero arises here)
RDiv(a, b) == IF IsNaN(a) \/ IsNaN(b) THEN NaN
              ELSE Frac(a[1] * b[2], a[2] * b[1])

RLess(a, b) == a[1] * b[2] < b[1] * a[2]

----------------------------------------------------------------------------
(* Python values *)

NoneV == [tag |-> "none", key |-> "None", vec |-> <<>>]

Key(k) == [tag |-> "key", key |-> k, vec |-> <<>>]

Vec(v) == [tag |-> "vec", key |-> "None", vec |-> v]

IsNone(a) == a.tag = "none"

NoData == [type |-> "None", name |-> "None", index |-> <<>>,
           columns |-> <<>>, values |-> <<>>]

Range(n) == [i \in 1..n |-> i - 1]

\* the element of a one-element set: {F(v) : v \in {e}} computes e once
Only(S) == CHOOSE v \in S : TRUE

Reverse(s) == [i \in 1..Len(s) |-> s[Len(s) + 1 - i]]

\* s[::step]
Stride(s, step) ==
    [i \in 1..((Len(s) + step - 1) \div step) |-> s[1 + (i - 1) * step]]

ColPos(data, k) == CHOOSE j \in 1..Len(data.columns) : data.columns[j] = k

HasCol(data, k) == \E j \in 1..Len(data.columns) : data.columns[j] = k

Column(data, k) == [i \in 1..Len(data.values) |-> data.values[i][ColPos(data, k)]]

\* data.get(a, a): the column when a is a column key of data, else a itself
DataGet(data, a) ==
    IF a.tag = "key" /\ data.type = "DataFrame" /\ HasCol(data, a.key)
    THEN Vec(Column(data, a.key))
    ELSE a

----------------------------------------------------------------------------
(* _compute_theta *)

\* pd.Series.unique(): the distinct values in order of first appearance
RECURSIVE Unique(_)
Unique(s) ==
    IF s = <<>> THEN <<>>
    ELSE LET u == Unique(SubSeq(s, 1, Len(s) - 1))
             e == s[Len(s)]
         IN  IF \E i \in 1..Len(u) : u[i] = e THEN u ELSE Append(u, e)

\* Linspace with the endpoint always included (np.linspace's own default)
LinspaceEndpoint(start, stop, num, endpoint) ==
    LET delta == RSub(stop, start)
        step == IF num > 1 THEN RDiv(delta, Num(num - 1)) ELSE delta
    IN  [k \in 1..num |-> RAdd(RMul(Num(k - 1), step), start)]

\* np.linspace(start, stop, num, endpoint) on rationals
Linspace(start, stop, num, endpoint) ==
    LET div == IF endpoint THEN num - 1 ELSE num
        delta == RSub(stop, start)
        step == IF div > 0 THEN RDiv(delta, Num(div)) ELSE delta
    IN  [k \in 1..num |->
            IF endpoint /\ num > 1 /\ k = num THEN stop
            ELSE RAdd(RMul(Num(k - 1), step), start)]

\* RoundDiv with ties rounded up
RoundHalfUp(n, h) == (2 * n + h) \div (2 * h)

\* int(np.round(n/h)) for integers n >= 0, h >= 1: round half to even
RoundDiv(n, h) ==
    LET q == n \div h
        r == n % h
    IN  IF 2 * r < h THEN q
        ELSE IF 2 * r > h THEN q + 1
        ELSE IF q % 2 = 0 THEN q ELSE q + 1

Max2(a, b) == IF a >= b THEN a ELSE b

SeqMin(s) == IF s = <<>> THEN NaN
             ELSE Num(CHOOSE m \in {s[i] : i \in 1..Len(s)} :
                        \A i \in 1..Len(s) : m <= s[i])

SeqMax(s) == IF s = <<>> THEN NaN
             ELSE Num(CHOOSE m \in {s[i] : i \in 1..Len(s)} :
                        \A i \in 1..Len(s) : m >= s[i])

IndexOf(u, e) == CHOOSE k \in 1..Len(u) : u[k] = e

\* the number of ticks in numerical mode when n_ticks_hint is None
DefaultTicks == 8

\* x, y: NoneV, Key or Vec; n_ticks_hint: <<>> (None) or <<h>>;
\* is_categorical: "True", "False" or "None" (falsy).
\* Result: err, theta (per element of x), t_vals (tick angles), x_vals (labels)
ComputeTheta(x, y, data, n_ticks_hint, is_categorical, is_closed) ==
    LET xg == IF data.type # "None" THEN DataGet(data, x) ELSE x
        yg == IF data.type # "None" THEN DataGet(data, y) ELSE y
        n0 == IF ~IsNone(yg) THEN Len(yg.vec) ELSE Len(data.values)
        xr == IF IsNone(xg) THEN [tag |-> "list", key |-> "None", vec |-> Range(n0)]
              ELSE xg
        xs == IF xr.tag = "key" THEN <<xr.key>> ELSE xr.vec
    IN  IF is_categorical = "True"
        THEN LET x_vals == Unique(xs)
                 n_vals == Len(x_vals)
                 t_vals == Linspace(Num(0), Num(1), n_vals, is_closed)
                 theta == [i \in 1..Len(xs) |-> t_vals[IndexOf(x_vals, xs[i])]]
                 step == IF n_ticks_hint = <<>> THEN 1
                         ELSE Max2(RoundDiv(n_vals, n_ticks_hint[1]), 1)
             IN  IF n_ticks_hint # <<>> /\ n_ticks_hint[1] = 0
                 THEN [err |-> "ZeroDivisionError", theta |-> <<>>,
                       t_vals |-> <<>>, x_vals |-> <<>>]
                 ELSE [err |-> "ok", theta |-> theta,
                       t_vals |-> Stride(t_vals, step),
                       x_vals |-> Stride(x_vals, step)]
        ELSE IF xr.tag # "vec"
        THEN \* a list or a str has no .min()
             [err |-> "AttributeError", theta |-> <<>>,
              t_vals |-> <<>>, x_vals |-> <<>>]
        ELSE LET x_min == SeqMin(xs)
                 x_max == SeqMax(xs)
                 theta == [i \in 1..Len(xs) |->
                             RDiv(RSub(Num(xs[i]), x_min), RSub(x_max, x_min))]
                 n == IF n_ticks_hint = <<>> THEN DefaultTicks ELSE n_ticks_hint[1]
             IN  [err |-> "ok", theta |-> theta,
                  t_vals |-> Linspace(Num(0), Num(1), n, FALSE),
                  x_vals |-> Linspace(x_min, x_max, n, FALSE)]

----------------------------------------------------------------------------
(* _format_input_data *)

ErrMissingArgs == "ValueError: Arguments y and data cannot both be None."

ErrArrayMode == "ValueError: In array mode (data=None), argument y must be set."

\* MissingArgs with "or" for "and"
MissingArgsOr(y, data) == IsNone(y) \/ data.type = "None"

\* the first check of _format_input_data
MissingArgs(y, data) == IsNone(y) /\ data.type = "None"

\* DataFrameFormat with "or" for "and"
DataFrameFormatOr(x, y) == IF IsNone(x) \/ IsNone(y) THEN "wide" ELSE "long"

\* the format tag of a DataFrame argument
DataFrameFormat(x, y) == IF IsNone(x) /\ IsNone(y) THEN "wide" ELSE "long"

\* pd.DataFrame(y).set_index(x).reset_index().melt(value_name="value",
\* id_vars="x") for a 1-d vector y and index x; the one column of
\* DataFrame(y) is named 0, written "0" here
Melt(xv, yv) ==
    [type |-> "DataFrame", name |-> "None", index |-> Range(Len(yv)),
     columns |-> <<"x", "category", "value">>,
     values |-> [i \in 1..Len(yv) |-> <<xv[i], "0", yv[i]>>]]

\* series.to_frame().reset_index() for a series named name
SeriesToFrame(ser, name) ==
    [type |-> "DataFrame", name |-> "None", index |-> Range(Len(ser.values)),
     columns |-> <<"index", name>>,
     values |-> [i \in 1..Len(ser.values) |-> <<ser.index[i], ser.values[i]>>]]

FormatError(e, data) ==
    [err |-> e, fmt |-> "invalid", x |-> NoneV, y |-> NoneV, hue |-> "None",
     style |-> "None", data |-> NoData, caller |-> data]

\* Result: err, the returned tuple (fmt, x, y, hue, style, data) and caller,
\* the object the caller passed as data as it is after the call.
FormatInputData(x, y, hue, style, data) ==
    IF MissingArgs(y, data) THEN FormatError(ErrMissingArgs, data)
    ELSE IF data.type = "None"
    THEN IF IsNone(y) THEN FormatError(ErrArrayMode, data)
         ELSE IF x.tag = "key"
         THEN FormatError("TypeError: Index(...) must be called with a collection", data)
         ELSE IF y.tag = "key"
         THEN FormatError("ValueError: DataFrame constructor not properly called!", data)
         ELSE LET xi == IF IsNone(x) THEN Range(Len(y.vec)) ELSE x.vec
              IN  IF Len(xi) # Len(y.vec)
                  THEN FormatError("ValueError: Length mismatch", data)
                  ELSE [err |-> "ok", fmt |-> "long", x |-> Key("x"),
                        y |-> Key("value"), hue |-> "category", style |-> style,
                        data |-> Melt(xi, y.vec), caller |-> data]
    ELSE IF data.type = "Series"
    THEN LET name == IF data.name = "None" THEN "value" ELSE data.name
             named == [data EXCEPT !.name = name]
         IN  [err |-> "ok", fmt |-> "long", x |-> Key("index"), y |-> Key(name),
              hue |-> hue, style |-> style, data |-> SeriesToFrame(named, name),
              caller |-> named]
    ELSE IF data.type = "DataFrame"
    THEN [err |-> "ok", fmt |-> DataFrameFormat(x, y), x |-> x, y |-> y,
          hue |-> hue, style |-> style, data |-> data, caller |-> data]
    ELSE FormatError("AssertionError", data)

----------------------------------------------------------------------------
(* The plotting world: the figure's axes, each with its line artists,      *)
(* patches and theta grid.  An axes is named by its position in axes;      *)
(* artists are only ever appended, so a line's position is its identity.   *)

ErrProjection == "ValueError: Axes must use polar projection."

NoAx == [kind |-> "none", id |-> 0]

AxRef(i) == [kind |-> "axes", id |-> i]

\* an object that is no matplotlib Axes
OtherAx == [kind |-> "other", id |-> 0]

NoTicks == [vals |-> <<>>, labels |-> <<>>]

\* full: the axes fills subplot position 111 of the figure
NewAxes(name, full) ==
    [name |-> name, full |-> full, lines |-> <<>>, patches |-> <<>>,
     ticks |-> NoTicks]

\* plt.subplot(projection="polar"): the figure's axes at position 111 when
\* it has the same projection, else a new one; it becomes the current axes
Subplot(w) ==
    LET same == {i \in 1..Len(w.axes) : w.axes[i].full /\ w.axes[i].name = "polar"}
    IN  IF same # {}
        THEN LET i == CHOOSE j \in same : \A k \in same : j <= k
             IN  [axes |-> w.axes, gca |-> i, ax |-> AxRef(i), created |-> FALSE]
        ELSE [axes |-> Append(w.axes, NewAxes("polar", TRUE)),
              gca |-> Len(w.axes) + 1, ax |-> AxRef(Len(w.axes) + 1),
              created |-> TRUE]

\* plt.gca(): the current axes; a figure without axes gets a rectilinear one
Gca(w) ==
    IF w.gca # 0
    THEN [axes |-> w.axes, gca |-> w.gca, ax |-> AxRef(w.gca), created |-> FALSE]
    ELSE [axes |-> Append(w.axes, NewAxes("rectilinear", TRUE)),
          gca |-> Len(w.axes) + 1, ax |-> AxRef(Len(w.axes) + 1),
          created |-> TRUE]

\* WrongProjection with the comparison of the projection name inverted
WrongProjectionInverted(ax, allaxes) ==
    ax.kind = "axes" /\ allaxes[ax.id].name = "polar"

\* isinstance(ax, mpl.axes.Axes) and ax.name != "polar"
WrongProjection(ax, allaxes) ==
    ax.kind = "axes" /\ allaxes[ax.id].name # "polar"

\* _ensure_axes on the world w = [axes, gca]
EnsureAxes(ax, enforce, w) ==
    LET g == IF ax.kind = "none"
             THEN (IF enforce THEN Subplot(w) ELSE Gca(w))
             ELSE [axes |-> w.axes, gca |-> w.gca, ax |-> ax, created |-> FALSE]
    IN  [err |-> IF WrongProjection(g.ax, g.axes) THEN ErrProjection ELSE "ok",
         ax |-> g.ax, axes |-> g.axes, gca |-> g.gca, created |-> g.created]

----------------------------------------------------------------------------
(* sns.lineplot, as far as spiderplot relies on it *)

\* Line2D labels: the default label "_line<n>" or an explicit one
AutoLabel(n) == [prefix |-> "_line", text |-> "None", n |-> n]

TextLabel(t) == [prefix |-> "", text |-> t, n |-> 0]

\* drawn, closed and call are bookkeeping: the number of points the line was
\* drawn with, how often it was closed, and the call that added it
NewLine(label, pts, call) ==
    [label |-> label, pts |-> pts, drawn |-> Len(pts), closed |-> 0,
     call |-> call]

\* NaN sorts last
TLess(a, b) == IF IsNaN(a) THEN FALSE ELSE IF IsNaN(b) THEN TRUE ELSE RLess(a, b)

RECURSIVE SortedSeq(_)
SortedSeq(T) ==
    IF T = {} THEN <<>>
    ELSE LET m == CHOOSE a \in T : \A b \in T \ {a} : TLess(a, b)
         IN  <<m>> \o SortedSeq(T \ {m})

RECURSIVE SumOver(_, _)
SumOver(ys, I) ==
    IF I = {} THEN Num(0)
    ELSE LET i == CHOOSE j \in I : TRUE
         IN  RAdd(ys[i], SumOver(ys, I \ {i}))

\* the estimator (mean) of the y values of rows I; NaN values are skipped
Mean(ys, I) ==
    LET J == {i \in I : ~IsNaN(ys[i])}
    IN  IF J = {} THEN NaN ELSE RDiv(SumOver(ys, J), Num(Cardinality(J)))

\* one line of the plot: the rows I, one point per x position, sorted by x
GroupPts(thetas, ys, I) ==
    LET ts == SortedSeq({thetas[i] : i \in I})
    IN  [k \in 1..Len(ts) |->
            <<ts[k], Mean(ys, {i \in I : thetas[i] = ts[k]})>>]

\* ax.plot for every group (the series lines), then, when seaborn draws a
\* legend through the axes, one empty line per group labelled with its name
RECURSIVE AddLines(_, _, _, _, _)
AddLines(lines, groups, has_label, label, call) ==
    IF groups = <<>> THEN lines
    ELSE AddLines(
            Append(lines,
                   NewLine(IF has_label THEN TextLabel(label)
                           ELSE AutoLabel(Len(lines)),
                           Head(groups), call)),
            Tail(groups), has_label, label, call)

RECURSIVE AddLegend(_, _, _)
AddLegend(lines, names, call) ==
    IF names = <<>> THEN lines
    ELSE AddLegend(Append(lines, NewLine(TextLabel(Head(names)), <<>>, call)),
                   Tail(names), call)

LinePlot(ax, groups, names, has_label, label, legend, call) ==
    LET drawn == AddLines(ax.lines, groups, has_label, label, call)
    IN  [ax EXCEPT !.lines = IF legend /\ groups # <<>>
                             THEN AddLegend(drawn, names, call)
                             ELSE drawn]

\* sns.lineplot(x=theta, y=y, hue=hue, data=data): one group per hue level
LongGroups(theta, y, hue, data) ==
    LET ys == DataGet(data, y).vec
        rows == 1..Len(theta)
    IN  IF hue = "None"
        THEN [names |-> <<"None">>,
              groups |-> IF rows = {} THEN <<>> ELSE <<GroupPts(theta, ys, rows)>>]
        ELSE LET hs == Column(data, hue)
                 levels == Unique(hs)
             IN  [names |-> levels,
                  groups |-> [k \in 1..Len(levels) |->
                                GroupPts(theta, ys, {i \in rows : hs[i] = levels[k]})]]

\* data.index.map(dict(zip(data.index.values, theta))): a later duplicate of
\* an index value overrides an earlier one
IndexToTheta(index, theta) ==
    [i \in 1..Len(index) |->
        theta[CHOOSE j \in 1..Len(index) :
                 /\ index[j] = index[i]
                 /\ \A l \in 1..Len(index) : index[l] = index[i] => l <= j]]

\* sns.lineplot(data=data) on a wide table: one group per column
WideGroups(theta, data) ==
    LET idx == IndexToTheta(data.index, theta)
        rows == 1..Len(data.values)
    IN  [names |-> data.columns,
         groups |-> IF rows = {} THEN <<>>
                    ELSE [k \in 1..Len(data.columns) |->
                            GroupPts(idx, [i \in rows |-> data.values[i][k]], rows)]]

----------------------------------------------------------------------------
(* _fill_and_close *)

Scalar(e) == [tag |-> "scalar", key |-> "None", vec |-> <<e>>]

\* NewLines without the test against lines_old
NewLinesAll(ax, lines_old, has_label, label) ==
    LET new == {i \in 1..Len(ax.lines) :
                  \/ has_label /\ ax.lines[i].label = TextLabel(label)
                  \/ ~has_label /\ ax.lines[i].label.prefix = "_line"}
    IN  [k \in 1..Cardinality(new) |->
            CHOOSE i \in new : Cardinality({j \in new : j < i}) = k - 1]

\* the lines of ax the call added: not in lines_old, and carrying the label
\* of the call or, without one, a default label
NewLines(ax, lines_old, has_label, label) ==
    LET new == {i \in 1..Len(ax.lines) :
                  /\ i \notin lines_old
                  /\ \/ has_label /\ ax.lines[i].label = TextLabel(label)
                     \/ ~has_label /\ ax.lines[i].label.prefix = "_line"}
    IN  [k \in 1..Cardinality(new) |->
            CHOOSE i \in new : Cardinality({j \in new : j < i}) = k - 1]

\* xy[~np.isnan(xy).any(axis=1)]
RECURSIVE DropNaN(_)
DropNaN(pts) ==
    IF pts = <<>> THEN <<>>
    ELSE IF IsNaN(Head(pts)[1]) \/ IsNaN(Head(pts)[2]) THEN DropNaN(Tail(pts))
    ELSE <<Head(pts)>> \o DropNaN(Tail(pts))

\* a[:,1] op extent under numpy broadcasting (sign = 1 or -1)
Shift(xyp, ext, sign) ==
    [i \in 1..Len(xyp) |->
        LET e == IF Len(ext) = 1 THEN ext[1] ELSE ext[i]
        IN  <<xyp[i][1],
              IF sign = 1 THEN RAdd(xyp[i][2], e) ELSE RSub(xyp[i][2], e)>>]

\* the extent branch of the fill: err, the polygon, and extent as the loop
\* leaves it for the next line
ExtentBand(xy, extent, data) ==
    LET got == IF data.type # "None" THEN DataGet(data, extent) ELSE extent
    IN  IF xy = <<>>
        THEN [err |-> "IndexError: index 0 is out of bounds", xyp |-> <<>>,
              extent |-> got]
        ELSE IF got.tag # "vec" \/ got.vec = <<>>
        THEN \* extent[0] on a 0-d or an empty array
             [err |-> "IndexError: extent[0]", xyp |-> <<>>, extent |-> got]
        ELSE LET xyp == Append(xy, xy[1])
                 ext == Append(got.vec, got.vec[1])
             IN  IF Len(ext) # Len(xyp) /\ Len(ext) # 1
                 THEN [err |-> "ValueError: operands could not be broadcast",
                       xyp |-> <<>>, extent |-> Vec(ext)]
                 ELSE [err |-> "ok",
                       xyp |-> Shift(xyp, ext, 1) \o Reverse(Shift(xyp, ext, 0 - 1)),
                       extent |-> Vec(ext)]

\* CloseLine appending the last point instead of the first
CloseLineLast(l) ==
    IF Len(l.pts) > 0
    THEN [l EXCEPT !.pts = Append(l.pts, l.pts[Len(l.pts)]), !.closed = l.closed + 1]
    ELSE l

\* l.set_xdata / l.set_ydata with the first point appended
CloseLine(l) ==
    IF Len(l.pts) > 0
    THEN [l EXCEPT !.pts = Append(l.pts, l.pts[1]), !.closed = l.closed + 1]
    ELSE l

\* the loop over lines_new (js: the positions still to do); an exception
\* leaves the artists as they are at that point
RECURSIVE FillLoop(_, _, _, _, _, _)
FillLoop(ax, js, data, extent, fill, call) ==
    IF js = <<>> THEN [err |-> "ok", ax |-> ax]
    ELSE LET j == Head(js)
             l == ax.lines[j]
         IN  Only({
               IF band.err # "ok" THEN [err |-> band.err, ax |-> ax]
               ELSE LET patched ==
                          IF fill
                          THEN Append(ax.patches,
                                      [verts |-> band.xyp, line |-> j, call |-> call])
                          ELSE ax.patches
                        ax2 == [ax EXCEPT !.patches = patched,
                                          !.lines[j] = CloseLine(l)]
                    IN  FillLoop(ax2, Tail(js), data, band.extent, fill, call)
               : band \in {IF fill /\ ~IsNone(extent)
                           THEN ExtentBand(DropNaN(l.pts), extent, data)
                           ELSE [err |-> "ok", xyp |-> DropNaN(l.pts),
                                 extent |-> extent]}})

FillAndClose(ax, data, extent, lines_old, fill, has_label, label, call) ==
    FillLoop(ax, NewLines(ax, lines_old, has_label, label), data, extent, fill, call)

----------------------------------------------------------------------------
(* _adjust_polar_grid and spiderplot *)

\* ax.set_thetagrids(vals, labels)
AdjustPolarGrid(ax, vals, labels) ==
    [ax EXCEPT !.ticks = [vals |-> vals, labels |-> labels]]

PlotResult(err, ax, w, fmt, th, created, caller) ==
    [err |-> err, ax |-> ax, axes |-> w.axes, gca |-> w.gca, fmt |-> fmt,
     theta |-> th.theta, t_vals |-> th.t_vals, x_vals |-> th.x_vals,
     created |-> created, caller |-> caller]

NoTheta == [err |-> "none", theta |-> <<>>, t_vals |-> <<>>, x_vals |-> <<>>]

\* the part of spiderplot after _compute_theta: lineplot, _fill_and_close
\* and the grid, on axes ea.ax with the normalised input f and the angles th
DrawOn(p, call, ea, f, th) ==
    LET a == ea.ax.id
        ax0 == ea.axes[a]
        lines_old == 1..Len(ax0.lines)
        has_label == p.label # "None"
        g == IF f.fmt = "wide" THEN WideGroups(th.theta, f.data)
             ELSE LongGroups(th.theta, f.y, f.hue, f.data)
        legend == p.legend /\ (f.fmt = "wide" \/ f.hue # "None")
        ax1 == LinePlot(ax0, g.groups, g.names, has_label, p.label, legend, call)
    IN  Only({
          IF fc.err # "ok"
          THEN PlotResult(fc.err, NoAx,
                          [axes |-> [ea.axes EXCEPT ![a] = fc.ax], gca |-> ea.gca],
                          f.fmt, th, ea.created, f.caller)
          ELSE LET ax2 == IF p.enforce
                          THEN AdjustPolarGrid(fc.ax, th.t_vals, th.x_vals)
                          ELSE fc.ax
                   ax3 == IF f.fmt = "wide"
                          THEN [ax2 EXCEPT !.ticks.labels = f.data.index]
                          ELSE ax2
               IN  PlotResult("ok", ea.ax,
                              [axes |-> [ea.axes EXCEPT ![a] = ax3], gca |-> ea.gca],
                              f.fmt, th, ea.created, f.caller)
          : fc \in {FillAndClose(ax1, f.data, p.extent, lines_old, p.fill,
                                 has_label, p.label, call)}})

\* the part of spiderplot after _format_input_data
PlotFormatted(p, call, ea, f) ==
    IF f.err # "ok"
    THEN PlotResult(f.err, NoAx, ea, "invalid", NoTheta, ea.created, f.caller)
    ELSE Only({
          IF th.err # "ok"
          THEN PlotResult(th.err, NoAx, ea, f.fmt, NoTheta, ea.created, f.caller)
          ELSE IF ea.ax.kind # "axes"
          THEN \* ax.lines of an object that is no Axes
               PlotResult("AttributeError", NoAx, ea, f.fmt, th, ea.created, f.caller)
          ELSE DrawOn(p, call, ea, f, th)
          : th \in {ComputeTheta(f.x, f.y, f.data, p.n_ticks_hint,
                                 p.is_categorical, FALSE)}})

\* the part of spiderplot after _ensure_axes
PlotEnsured(p, call, ea) ==
    IF ea.err # "ok"
    THEN PlotResult(ea.err, NoAx, ea, "invalid", NoTheta, ea.created, p.data)
    ELSE Only({PlotFormatted(p, call, ea, f)
               : f \in {FormatInputData(p.x, p.y, p.hue, p.style, p.data)}})

\* spiderplot with arguments p on the world w, as call number call.
\* p.label is the label keyword ("None": not given); p.legend says whether
\* seaborn adds its legend entries as lines of the axes.
\* Result: err, the returned ax, the world (axes, gca) after the call and
\* caller, the object passed as data as it is after the call.
SpiderplotCall(p, w, call) ==
    Only({PlotEnsured(p, call, ea) : ea \in {EnsureAxes(p.ax, p.enforce, w)}})

----------------------------------------------------------------------------
(* spiderplot_facet *)

\* the rows of data whose column k holds lev (FacetGrid.facet_data)
Subset(data, k, lev) ==
    LET keep == {i \in 1..Len(data.values) : data.values[i][ColPos(data, k)] = lev}
        pos == [j \in 1..Cardinality(keep) |->
                  CHOOSE i \in keep : Cardinality({l \in keep : l < i}) = j - 1]
    IN  [data EXCEPT !.index = [j \in 1..Len(pos) |-> data.index[pos[j]]],
                     !.values = [j \in 1..Len(pos) |-> data.values[pos[j]]]]

\* grid.map_dataframe(spiderplot, ...): facet k is made the current axes and
\* spiderplot draws the facet's rows on it, with spiderplot's own defaults
\* for is_categorical and n_ticks_hint. drawn collects, per facet, the x
\* values of its rows and the angles they were drawn at.
RECURSIVE MapDataframe(_, _, _, _, _, _)
MapDataframe(w, levels, k, p, col, drawn) ==
    IF k > Len(levels) THEN [err |-> "ok", axes |-> w.axes, drawn |-> drawn]
    ELSE Only({
           Only({
             IF r.err # "ok"
             THEN [err |-> r.err, axes |-> r.axes, drawn |-> drawn]
             ELSE MapDataframe([axes |-> r.axes, gca |-> k], levels, k + 1, p, col,
                               Append(drawn, [xs |-> DataGet(sub, p.x).vec,
                                              theta |-> r.theta]))
             : r \in {SpiderplotCall(
                        [ax |-> NoAx, enforce |-> FALSE, x |-> p.x, y |-> p.y,
                         hue |-> "None", style |-> p.style, extent |-> NoneV,
                         data |-> sub, fill |-> p.fill, n_ticks_hint |-> <<>>,
                         is_categorical |-> "True", label |-> "None",
                         legend |-> FALSE],
                        [axes |-> w.axes, gca |-> k], k)}})
           : sub \in {Subset(p.data, col, levels[k])}})

\* spiderplot_facet(data, col=col, x=x, y=y, ...): one polar axes per value
\* of col, spiderplot on each, then the theta grid of every axes computed
\* from the whole data with the facet function's own is_categorical and
\* n_ticks_hint
SpiderplotFacetCall(p, col) ==
    LET levels == Unique(Column(p.data, col))
        grid == [axes |-> [k \in 1..Len(levels) |-> NewAxes("polar", FALSE)],
                 gca |-> 0]
    IN  Only({
          IF m.err # "ok"
          THEN [err |-> m.err, axes |-> m.axes, drawn |-> m.drawn,
                t_vals |-> <<>>, x_vals |-> <<>>]
          ELSE Only({
                 IF th.err # "ok"
                 THEN [err |-> th.err, axes |-> m.axes, drawn |-> m.drawn,
                       t_vals |-> <<>>, x_vals |-> <<>>]
                 ELSE [err |-> "ok",
                       axes |-> [k \in 1..Len(m.axes) |->
                                   AdjustPolarGrid(m.axes[k], th.t_vals, th.x_vals)],
                       drawn |-> m.drawn, t_vals |-> th.t_vals, x_vals |-> th.x_vals]
                 : th \in {ComputeTheta(p.x, p.y, p.data, p.n_ticks_hint,
                                        p.is_categorical, FALSE)}})
          : m \in {MapDataframe(grid, levels, 1, p, col, <<>>)}})

----------------------------------------------------------------------------
(* Specification of _compute_theta alone: Init draws the arguments, the     *)
(* action applies the function.                                            *)

\* rows of the table when x is None (wide form: x = list(range(len(y))))
MaxRows == 5

XVals == 1..MaxLen

Vectors == UNION {[1..n -> XVals] : n \in 0..MaxLen}

Zeros(n) == [i \in 1..n |-> 0]

\* a long-form table with one column "x"
XFrame(v) == [type |-> "DataFrame", name |-> "None", index |-> Range(Len(v)),
              columns |-> <<"x">>, values |-> [i \in 1..Len(v) |-> <<v[i]>>]]

ThetaInputs ==
    {[x |-> Vec(v), y |-> NoneV, data |-> NoData] : v \in Vectors}
    \cup {[x |-> Key("x"), y |-> NoneV, data |-> XFrame(v)] : v \in Vectors}
    \cup {[x |-> NoneV, y |-> Vec(Zeros(n)), data |-> NoData] : n \in 0..MaxRows}

Hints == {<<>>} \cup {<<h>> : h \in 0..MaxHint}

InitTheta ==
    /\ pc = "theta_call"
    /\ \E i \in ThetaInputs, h \in Hints,
          c \in {"True", "False", "None"}, cl \in BOOLEAN :
            args = [x |-> i.x, y |-> i.y, data |-> i.data, n_ticks_hint |-> h,
                    is_categorical |-> c, is_closed |-> cl]
    /\ heap = NoData
    /\ ret = [err |-> "none", theta |-> <<>>, t_vals |-> <<>>, x_vals |-> <<>>]
    /\ axes = <<>>
    /\ gca = 0
    /\ ncalls = 0

CallComputeTheta ==
    /\ pc = "theta_call"
    /\ pc' = "theta_done"
    /\ ret' = ComputeTheta(args.x, args.y, args.data, args.n_ticks_hint,
                           args.is_categorical, args.is_closed)
    /\ UNCHANGED <<args, heap, axes, gca, ncalls>>

NextTheta == CallComputeTheta

SpecTheta == InitTheta /\ [][NextTheta]_vars

(* What the claims about _compute_theta speak of, stated from the input *)

\* the x sequence the call is about
InputXs == IF args.x.tag = "vec" THEN args.x.vec
           ELSE IF args.x.tag = "key" THEN Column(args.data, args.x.key)
           ELSE Range(Len(args.y.vec))

\* positions at which a value of xs appears for the first time
FirstPos(xs) == {i \in 1..Len(xs) : \A j \in 1..(i - 1) : xs[j] # xs[i]}

\* 0-based rank, in first-appearance order, of the value at position i
RankOf(xs, i) ==
    Cardinality({f \in FirstPos(xs) : \E j \in 1..i : xs[j] = xs[i] /\ f < j
                                        /\ \A l \in 1..(j - 1) : xs[l] # xs[i]})

\* the k-th (1-based) distinct value in first-appearance order
KthDistinct(xs, k) ==
    xs[CHOOSE f \in FirstPos(xs) : Cardinality({g \in FirstPos(xs) : g < f}) = k - 1]

NDistinct(xs) == Cardinality(FirstPos(xs))

ThetaDone == pc = "theta_done" /\ ret.err = "ok"

\* s is max(round(n/h), 1) with the nearest integer taken, ties to even
IsTickStep(s, n, h) ==
    \E r \in 0..n :
        /\ Abs(2 * n - 2 * r * h) <= h
        /\ (Abs(2 * n - 2 * r * h) = h => r % 2 = 0)
        /\ s = IF r >= 1 THEN r ELSE 1

\* every tick label is one of the x values and sits at the angle of that value
TicksPaired ==
    /\ Len(ret.t_vals) = Len(ret.x_vals)
    /\ \A j \in 1..Len(ret.x_vals) : \A i \in 1..Len(InputXs) :
          InputXs[i] = ret.x_vals[j] => ret.theta[i] = ret.t_vals[j]

\* C6: default tick count. With n_ticks_hint None, categorical mode gives one
\* tick per distinct x value, labelled with the distinct values in order of
\* first appearance and placed at the angle of that value, and numerical mode
\* gives exactly 8 ticks; with n_ticks_hint = h >= 1 in categorical mode the
\* ticks are every step-th distinct value starting with the first, where
\* step = max(round(n/h), 1), and tick angles and labels stay paired.
C6_DefaultTicks ==
    ThetaDone =>
        LET xs == InputXs
            n == NDistinct(xs)
            h == args.n_ticks_hint
        IN  /\ (args.is_categorical = "True" /\ h = <<>>) =>
                 /\ Len(ret.x_vals) = n
                 /\ \A k \in 1..n : ret.x_vals[k] = KthDistinct(xs, k)
                 /\ TicksPaired
            /\ (args.is_categorical # "True" /\ h = <<>>) =>
                 /\ Len(ret.t_vals) = 8
                 /\ Len(ret.x_vals) = 8
            /\ (args.is_categorical = "True" /\ h # <<>>) =>
                 \E s \in 1..Max2(n, 1) :
                    /\ IsTickStep(s, n, h[1])
                    /\ Len(ret.x_vals) = Cardinality({k \in 1..n : (k - 1) % s = 0})
                    /\ \A j \in 1..Len(ret.x_vals) :
                          ret.x_vals[j] = KthDistinct(xs, 1 + (j - 1) * s)
                    /\ TicksPaired

\* a hint that makes n/h a tie (5/2), so that the rounding rule matters
C6_Witness ==
    /\ ThetaDone
    /\ args.is_categorical = "True"
    /\ args.n_ticks_hint = <<2>>
    /\ NDistinct(InputXs) = 5
    /\ Len(ret.x_vals) = 3

\* C7: categorical angular mapping. With is_closed = FALSE the k-th distinct
\* value (k = 0..n-1, first-appearance order) gets the angle k/n of a full
\* turn: equal values share an angle, distinct values differ, the first is at
\* 0 and all are below a full turn. With is_closed = TRUE the k-th distinct
\* value gets k/(n-1) of a full turn, the first at 0 and the last a full turn
\* later, which is the same angular position.
C7_CategoricalAngles ==
    (ThetaDone /\ args.is_categorical = "True") =>
        LET xs == InputXs
            n == NDistinct(xs)
        IN  /\ Len(ret.theta) = Len(xs)
            /\ ~args.is_closed =>
                 /\ \A i \in 1..Len(xs) : ret.theta[i] = Frac(RankOf(xs, i), n)
                 /\ \A i, j \in 1..Len(xs) :
                       (xs[i] = xs[j]) <=> (ret.theta[i] = ret.theta[j])
                 /\ \A i \in 1..Len(xs) :
                       /\ RankOf(xs, i) = 0 => ret.theta[i] = Num(0)
                       /\ RLess(ret.theta[i], Num(1))
            /\ args.is_closed =>
                 /\ \A i \in 1..Len(xs) :
                       RMul(ret.theta[i], Num(n - 1)) = Num(RankOf(xs, i))
                 /\ n >= 2 => \A i, j \in 1..Len(xs) :
                       (RankOf(xs, i) = 0 /\ RankOf(xs, j) = n - 1) =>
                          RSub(ret.theta[j], ret.theta[i]) = Num(1)

\* two distinct values, the first of them repeated after the second, on an
\* open axis
C7_Witness ==
    /\ ThetaDone
    /\ args.is_categorical = "True"
    /\ ~args.is_closed
    /\ NDistinct(InputXs) = 2
    /\ Len(InputXs) = 3
    /\ InputXs[1] = InputXs[3]
    /\ ret.theta = <<Num(0), Frac(1, 2), Num(0)>>

----------------------------------------------------------------------------
(* Specification of _format_input_data alone.  heap holds the caller's     *)
(* objects: they are passed by reference, so what the function does to     *)
(* them is seen by the caller.                                             *)

FVectors == {Range(n) : n \in 0..MaxLen}

ASeries(name) == [type |-> "Series", name |-> name, index |-> <<1, 2, 3>>,
                  columns |-> <<>>, values |-> <<4, 5, 6>>]

\* index: the categories, one column per series
WideFrame == [type |-> "DataFrame", name |-> "None", index |-> <<1, 2, 3>>,
              columns |-> <<"u", "v">>,
              values |-> <<<<1, 2>>, <<3, 4>>, <<5, 6>>>>]

LongFrame == [type |-> "DataFrame", name |-> "None", index |-> Range(4),
              columns |-> <<"x", "category", "value">>,
              values |-> <<<<1, 1, 5>>, <<2, 1, 6>>, <<1, 2, 7>>, <<2, 2, 8>>>>]

\* an argument that is neither a Series nor a DataFrame
ADict == [type |-> "dict", name |-> "None", index |-> <<>>,
          columns |-> <<"x", "value">>, values |-> <<<<1, 5>>, <<2, 6>>>>]

FormatData == {NoData, ASeries("None"), ASeries("s"), WideFrame, LongFrame, ADict}

InitFormat ==
    /\ pc = "format_call"
    /\ \E x \in {NoneV, Key("x")} \cup {Vec(v) : v \in FVectors},
          y \in {NoneV, Key("value")} \cup {Vec(v) : v \in FVectors},
          hue \in {"None", "category"}, style \in {"None", "category"},
          data \in FormatData :
            /\ args = [x |-> x, y |-> y, hue |-> hue, style |-> style, data |-> data]
            /\ heap = [x |-> x, y |-> y, data |-> data]
    /\ ret = FormatError("none", NoData)
    /\ axes = <<>>
    /\ gca = 0
    /\ ncalls = 0

CallFormatInputData ==
    /\ pc = "format_call"
    /\ pc' = "format_done"
    /\ ret' = FormatInputData(args.x, args.y, args.hue, args.style, args.data)
    /\ heap' = [heap EXCEPT !.data = ret'.caller]
    /\ UNCHANGED <<args, axes, gca, ncalls>>

NextFormat == CallFormatInputData

SpecFormat == InitFormat /\ [][NextFormat]_vars

FormatDone == pc = "format_done"

\* the four accepted input shapes
IsWideInput == args.data.type = "DataFrame" /\ IsNone(args.x) /\ IsNone(args.y)

IsLongInput == args.data.type = "DataFrame" /\ ~(IsNone(args.x) /\ IsNone(args.y))

IsVectorInput ==
    /\ args.data.type = "None"
    /\ args.y.tag = "vec"
    /\ IsNone(args.x) \/ (args.x.tag = "vec" /\ Len(args.x.vec) = Len(args.y.vec))

IsSeriesInput == args.data.type = "Series"

\* C1 as stated: every accepted input shape is returned with fmt = "long".
C1_AllLong ==
    (FormatDone /\ (IsWideInput \/ IsLongInput \/ IsVectorInput \/ IsSeriesInput))
        => (ret.err = "ok" /\ ret.fmt = "long")

\* C1 amended: every accepted input shape is returned without error; the
\* format tag is "long" for a long DataFrame (x or y given), for raw vectors
\* (data None, x None or as long as y) and for a Series, where the returned
\* data is a long-form table holding the returned x and y as columns; for a
\* wide DataFrame (x and y both None) the tag is "wide" and the table is
\* returned as it is.
C1_LongExceptWide ==
    FormatDone =>
        /\ (IsLongInput \/ IsVectorInput \/ IsSeriesInput) =>
              (ret.err = "ok" /\ ret.fmt = "long")
        /\ (IsVectorInput \/ IsSeriesInput) =>
              (HasCol(ret.data, ret.x.key) /\ HasCol(ret.data, ret.y.key)
               /\ Len(ret.data.values) = IF IsSeriesInput
                                         THEN Len(args.data.values)
                                         ELSE Len(args.y.vec))
        /\ IsWideInput =>
              (ret.err = "ok" /\ ret.fmt = "wide" /\ ret.data = args.data)

\* a long DataFrame with only y given has been normalised
C1_Witness ==
    /\ FormatDone
    /\ IsLongInput
    /\ IsNone(args.x)
    /\ ret.fmt = "long"

\* C2: missing required arguments are rejected. The call raises the "y and
\* data cannot both be None" ValueError, and returns nothing, exactly when y
\* is None and data is None, whatever x, hue and style are.
C2_MissingArgsRejected ==
    FormatDone =>
        /\ (IsNone(args.y) /\ args.data.type = "None") <=> (ret.err = ErrMissingArgs)
        /\ ret.err = ErrMissingArgs => (ret.fmt = "invalid" /\ ret.data = NoData)

\* y and data are None while x, hue and style are given
C2_Witness ==
    /\ FormatDone
    /\ IsNone(args.y) /\ args.data.type = "None"
    /\ args.x.tag = "vec" /\ args.hue # "None" /\ args.style # "None"
    /\ ret.err = ErrMissingArgs

\* C10: the caller's input is not modified: after the call the object passed
\* as data and the x/y vectors are as they were before it.
C10_InputUnmodified ==
    FormatDone => (heap.data = args.data /\ heap.x = args.x /\ heap.y = args.y)

----------------------------------------------------------------------------
(* Specification of one spiderplot call on a figure that earlier plotting  *)
(* has left in one of a few states.                                        *)

MaxCat == 3

\* y of category c in series lev; with nan, the first value of the first
\* series is missing
YVal(c, lev, nan) == IF nan /\ c = 1 /\ lev = 1 THEN NaN ELSE Num(c + lev)

\* long form: columns x, category, value, err; h series of n categories
PlotLong(n, h, nan) ==
    [type |-> "DataFrame", name |-> "None", index |-> Range(n * h),
     columns |-> <<"x", "category", "value", "err">>,
     values |-> [i \in 1..(n * h) |->
                   LET lev == 1 + ((i - 1) \div n)
                       c == 1 + ((i - 1) % n)
                   IN  <<c, <<"u", "v">>[lev], YVal(c, lev, nan), Num(1)>>]]

\* wide form: the index holds the categories, one column per series
PlotWide(n) ==
    [type |-> "DataFrame", name |-> "None", index |-> [i \in 1..n |-> i],
     columns |-> <<"u", "v">>,
     values |-> [i \in 1..n |-> <<YVal(i, 1, FALSE), YVal(i, 2, FALSE)>>]]

PlotSeries(n, name) ==
    [type |-> "Series", name |-> name, index |-> [i \in 1..n |-> i],
     columns |-> <<>>, values |-> [i \in 1..n |-> YVal(i, 1, FALSE)]]

PlotInput(x, y, hue, data) == [x |-> x, y |-> y, hue |-> hue, data |-> data]

PlotInputs ==
    UNION {
      {PlotInput(Key("x"), Key("value"), "category", PlotLong(n, 2, FALSE)),
       PlotInput(Key("x"), Key("value"), "category", PlotLong(n, 2, TRUE)),
       PlotInput(Key("x"), Key("value"), "None", PlotLong(n, 1, FALSE)),
       PlotInput(Key("x"), Key("value"), "None", PlotLong(n, 1, TRUE)),
       PlotInput(NoneV, NoneV, "None", PlotWide(n)),
       PlotInput(NoneV, NoneV, "None", PlotSeries(n, "None")),
       PlotInput(NoneV, NoneV, "None", PlotSeries(n, "s")),
       PlotInput(Vec([i \in 1..n |-> i]), Vec([i \in 1..n |-> YVal(i, 1, FALSE)]),
                 "None", NoData),
       PlotInput(Vec([i \in 1..n |-> i]), NoneV, "None", NoData)}
      : n \in 1..MaxCat}

\* extent as a constant, as a vector with one value per category, as a
\* column key, or None
Extents(i) ==
    {NoneV, Scalar(Num(1)), Key("err"),
     Vec([k \in 1..Len(IF i.data.type = "None" THEN i.x.vec ELSE IF i.data.type = "Series" THEN i.data.index ELSE Unique(IF HasCol(i.data, "x") THEN Column(i.data, "x") ELSE i.data.index)) |-> Num(1)])}

\* a line some earlier plotting left on an axes
OldLine == NewLine(AutoLabel(0), <<<<Num(0), Num(1)>>, <<Frac(1, 2), Num(2)>>>>, 0)

World(a, g) == [axes |-> a, gca |-> g]

\* figures: empty; a polar axes at position 111; a rectilinear one; a polar
\* axes elsewhere that already holds a line; a polar one and a rectilinear
\* one, the latter current
Worlds ==
    {World(<<>>, 0),
     World(<<NewAxes("polar", TRUE)>>, 1),
     World(<<NewAxes("rectilinear", TRUE)>>, 1),
     World(<<[NewAxes("polar", FALSE) EXCEPT !.lines = <<OldLine>>]>>, 1),
     World(<<NewAxes("polar", FALSE), NewAxes("rectilinear", FALSE)>>, 2)}

NoArgs ==
    [ax |-> NoAx, enforce |-> TRUE, x |-> NoneV, y |-> NoneV, hue |-> "None",
     style |-> "None", extent |-> NoneV, data |-> NoData, fill |-> TRUE,
     n_ticks_hint |-> <<>>, is_categorical |-> "True", label |-> "None",
     legend |-> FALSE]

NoRet == PlotResult("none", NoAx, World(<<>>, 0), "invalid", NoTheta, FALSE, NoData)

InitPlot ==
    /\ pc = "plot"
    /\ \E w \in Worlds : axes = w.axes /\ gca = w.gca
    /\ args = NoArgs
    /\ heap = NoData
    /\ ret = NoRet
    /\ ncalls = 0

AxArgs == {NoAx, OtherAx} \cup {AxRef(i) : i \in 1..Len(axes)}

\* one call of spiderplot with arguments p; ret keeps what the call returned
\* or raised, heap the caller's data object as the call leaves it
Spiderplot(p) ==
    /\ ret' = SpiderplotCall(p, World(axes, gca), ncalls + 1)
    /\ axes' = ret'.axes
    /\ gca' = ret'.gca
    /\ heap' = ret'.caller
    /\ args' = p
    /\ ncalls' = ncalls + 1
    /\ pc' = "plot"

PlotCall ==
    /\ pc = "plot"
    /\ ncalls = 0
    /\ \E i \in PlotInputs, ax \in AxArgs, enforce \in BOOLEAN, fill \in BOOLEAN,
          label \in {"None", "foo"}, legend \in BOOLEAN,
          c \in {"True", "False"} :
         \E e \in Extents(i) :
            Spiderplot([ax |-> ax, enforce |-> enforce, x |-> i.x, y |-> i.y,
                        hue |-> i.hue, style |-> "None", extent |-> e,
                        data |-> i.data, fill |-> fill, n_ticks_hint |-> <<>>,
                        is_categorical |-> c, label |-> label, legend |-> legend])

NextPlot == PlotCall

SpecPlot == InitPlot /\ [][NextPlot]_vars

(* What the claims about a spiderplot call speak of *)

Returned == ncalls > 0 /\ ret.err = "ok"

\* all lines of axes a, as (axes, position) pairs
LinesOn(a) == {<<a, i>> : i \in 1..Len(axes[a].lines)}

PatchesOn(a) == {<<a, i>> : i \in 1..Len(axes[a].patches)}

\* the lines and patches the last call added
LinesOfCall ==
    UNION {{r \in LinesOn(a) : axes[a].lines[r[2]].call = ncalls}
           : a \in 1..Len(axes)}

PatchesOfCall ==
    UNION {{r \in PatchesOn(a) : axes[a].patches[r[2]].call = ncalls}
           : a \in 1..Len(axes)}

\* the axes _ensure_axes would use, looked up in the world after the call
\* (axes are never removed, so positions agree with those before it)
UsedAxes ==
    IF args.ax.kind = "axes" THEN args.ax
    ELSE IF args.ax.kind = "other" THEN OtherAx
    ELSE IF args.enforce THEN NoAx
    ELSE AxRef(gca)

\* C3 as stated: a non-polar Axes is rejected with ValueError before any
\* line or patch is added, any Axes returned is polar, and with ax None and
\* enforce TRUE the axes used is a newly created polar one.
C3_NewlyCreated ==
    ncalls > 0 =>
        /\ (UsedAxes.kind = "axes" /\ axes[UsedAxes.id].name # "polar") =>
              (ret.err = ErrProjection /\ LinesOfCall = {} /\ PatchesOfCall = {})
        /\ ret.ax.kind = "axes" => axes[ret.ax.id].name = "polar"
        /\ (args.ax.kind = "none" /\ args.enforce) =>
              (ret.err # ErrProjection /\ ret.created
               /\ axes[gca].name = "polar")

\* C3 amended: a non-polar Axes (the ax passed in, or the current axes when
\* ax is None and enforce is FALSE) is rejected with ValueError, before any
\* line or patch is added; any Axes returned is polar; with ax None and
\* enforce TRUE no projection error is raised and the axes used is the polar
\* axes plt.subplot(projection="polar") yields: the figure's existing polar
\* axes at that position when there is one, a newly created one otherwise.
C3_WrongProjectionRejected ==
    ncalls > 0 =>
        /\ (UsedAxes.kind = "axes" /\ axes[UsedAxes.id].name # "polar") =>
              (ret.err = ErrProjection /\ LinesOfCall = {} /\ PatchesOfCall = {})
        /\ ret.err = ErrProjection =>
              (UsedAxes.kind = "axes" /\ axes[UsedAxes.id].name # "polar")
        /\ ret.ax.kind = "axes" => axes[ret.ax.id].name = "polar"
        /\ (args.ax.kind = "none" /\ args.enforce) =>
              /\ ret.err # ErrProjection
              /\ axes[gca].name = "polar" /\ axes[gca].full
              /\ \A a \in 1..(gca - 1) : ~(axes[a].name = "polar" /\ axes[a].full)
              /\ ret.created => (gca = Len(axes) /\ LinesOfCall = LinesOn(gca))
              /\ ret.err = "ok" => ret.ax = AxRef(gca)

\* a rectilinear axes was passed in and the call was rejected
C3_Witness ==
    /\ ncalls > 0
    /\ args.ax.kind = "axes"
    /\ axes[args.ax.id].name = "rectilinear"
    /\ ~IsNone(args.y) \/ args.data.type # "None"
    /\ ret.err = ErrProjection

\* C4: the polygon is closed. After spiderplot returns, every line the call
\* added that was drawn with at least one point has exactly one more point
\* than it was drawn with, the added last point being its first point (the
\* same values, NaN included), whether fill is TRUE or FALSE; a line with no
\* points is left with no points.
C4_LinesClosed ==
    Returned =>
        \A r \in LinesOfCall :
            LET l == axes[r[1]].lines[r[2]]
            IN  /\ l.drawn >= 1 =>
                      /\ Len(l.pts) = l.drawn + 1
                      /\ l.pts[Len(l.pts)] = l.pts[1]
                /\ l.drawn = 0 => l.pts = <<>>

\* a call without fill added a line of two different points and an empty
\* (legend) line
C4_Witness ==
    /\ Returned
    /\ ~args.fill
    /\ \E r \in LinesOfCall :
          LET l == axes[r[1]].lines[r[2]]
          IN  l.drawn >= 2 /\ l.pts[1] # l.pts[2]
    /\ \E r \in LinesOfCall : axes[r[1]].lines[r[2]].drawn = 0

\* the error value of the i-th point of a line of m points, closed to m + 1
ExtentAt(i, m) ==
    LET e == IF args.extent.tag = "key" THEN Column(args.data, args.extent.key)
             ELSE args.extent.vec
    IN  IF args.extent.tag = "scalar" THEN e[1]
        ELSE e[IF i = m + 1 THEN 1 ELSE i]

\* the dual band around the closed non-NaN points q
IsBand(verts, q) ==
    LET m == Len(q) - 1
    IN  /\ Len(verts) = 2 * (m + 1)
        /\ \A i \in 1..(m + 1) :
              /\ verts[i] = <<q[i][1], RAdd(q[i][2], ExtentAt(i, m))>>
              /\ verts[2 * (m + 1) + 1 - i] = <<q[i][1], RSub(q[i][2], ExtentAt(i, m))>>

\* extent is a constant, a vector or a column key of data
ValidExtent ==
    \/ args.extent.tag \in {"scalar", "vec"}
    \/ args.extent.tag = "key" /\ args.data.type = "DataFrame"
          /\ HasCol(args.data, args.extent.key)

\* the call gets as far as _fill_and_close
ReachesFill ==
    /\ ncalls > 0
    /\ ret.err \notin {ErrProjection, ErrMissingArgs, "AttributeError"}

\* C5: with fill and an extent (vector, constant or column key), for every
\* new line of the call one polygon is added that is the dual band around the
\* line, with the same extent values for every line.
C5_DualBand ==
    (ReachesFill /\ args.fill /\ ValidExtent) =>
        /\ ret.err = "ok"
        /\ \A r \in LinesOfCall :
              LET l == axes[r[1]].lines[r[2]]
                  q == DropNaN(l.pts)
              IN  l.drawn >= 1 =>
                    \E k \in PatchesOfCall :
                       /\ k[1] = r[1]
                       /\ axes[k[1]].patches[k[2]].line = r[2]
                       /\ IsBand(axes[k[1]].patches[k[2]].verts, q)

----------------------------------------------------------------------------
(* Specification of repeated spiderplot calls on one polar axes that       *)
(* already holds a line.                                                   *)

MaxCalls == 2

InitRepeat ==
    /\ pc = "plot"
    /\ axes = <<[NewAxes("polar", TRUE) EXCEPT !.lines = <<OldLine>>]>>
    /\ gca = 1
    /\ args = NoArgs
    /\ heap = NoData
    /\ ret = NoRet
    /\ ncalls = 0

\* one or two series of MaxCat categories; seaborn's legend lines come with
\* the hue semantic only
RepeatInputs ==
    {[in |-> PlotInput(Key("x"), Key("value"), "category", PlotLong(MaxCat, 2, FALSE)),
      legend |-> b] : b \in BOOLEAN}
    \cup {[in |-> PlotInput(Key("x"), Key("value"), "None", PlotLong(MaxCat, 1, TRUE)),
           legend |-> FALSE]}

\* fill with and without an extent, or no fill
RepeatFills ==
    {[fill |-> TRUE, extent |-> NoneV],
     [fill |-> TRUE, extent |-> Vec([k \in 1..MaxCat |-> Num(1)])],
     [fill |-> FALSE, extent |-> NoneV]}

RepeatCall ==
    /\ pc = "plot"
    /\ ncalls < MaxCalls
    /\ \E i \in RepeatInputs, f \in RepeatFills, label \in {"None", "foo"},
          ax \in {NoAx, AxRef(1)} :
            Spiderplot([ax |-> ax, enforce |-> TRUE, x |-> i.in.x, y |-> i.in.y,
                        hue |-> i.in.hue, style |-> "None", extent |-> f.extent,
                        data |-> i.in.data, fill |-> f.fill,
                        n_ticks_hint |-> <<>>, is_categorical |-> "True",
                        label |-> label, legend |-> i.legend])

NextRepeat == RepeatCall

SpecRepeat == InitRepeat /\ [][NextRepeat]_vars

\* the series lines among the lines of the last call
SeriesOfCall == {r \in LinesOfCall : axes[r[1]].lines[r[2]].drawn >= 1}

\* a step leaves every line and patch that was on the axes before it as it is
EarlierOutputKept ==
    \A a \in 1..Len(axes) :
        /\ \A i \in 1..Len(axes[a].lines) : axes'[a].lines[i] = axes[a].lines[i]
        /\ \A i \in 1..Len(axes[a].patches) : axes'[a].patches[i] = axes[a].patches[i]

\* no line is closed twice; a call that returns added one polygon for each
\* of its series lines when fill is TRUE, and none otherwise
ClosedOnceFilledOnce ==
    /\ \A a \in 1..Len(axes) : \A i \in 1..Len(axes[a].lines) :
          /\ axes[a].lines[i].closed <= 1
          /\ Len(axes[a].lines[i].pts) =
                axes[a].lines[i].drawn + axes[a].lines[i].closed
    /\ Returned =>
          /\ ~args.fill => PatchesOfCall = {}
          /\ args.fill =>
                /\ Cardinality(PatchesOfCall) = Cardinality(SeriesOfCall)
                /\ \A r \in SeriesOfCall : \E k \in PatchesOfCall :
                      k[1] = r[1] /\ axes[k[1]].patches[k[2]].line = r[2]

\* C9: repeated calls on the same axes do not disturb earlier output. A call
\* closes and fills only the lines it added: every line (and patch) that was
\* on the axes before the call is the same after it, so no line is closed
\* twice, and a call that returns adds exactly one fill polygon per series
\* line it added when fill is TRUE and none when fill is FALSE.
C9_EarlierOutputKept == [][EarlierOutputKept]_vars /\ []ClosedOnceFilledOnce

\* a second call has returned on an axes whose earlier lines were closed by
\* the first, and filled its two new lines
C9_Witness ==
    /\ ncalls = 2
    /\ Returned
    /\ args.fill
    /\ Cardinality(SeriesOfCall) = 2
    /\ \E a \in 1..Len(axes) : \E i \in 1..Len(axes[a].lines) :
          axes[a].lines[i].call = 1 /\ axes[a].lines[i].closed = 1

----------------------------------------------------------------------------
(* Specification of spiderplot_facet on long-form data with a categorical  *)
(* x column (numbers used as category names) and a facet column.           *)

FacetRows == UNION {[1..n -> XVals \X {"A", "B"}] : n \in 1..MaxLen}

FacetFrame(rows) ==
    [type |-> "DataFrame", name |-> "None", index |-> Range(Len(rows)),
     columns |-> <<"x", "col", "value">>,
     values |-> [i \in 1..Len(rows) |-> <<rows[i][1], rows[i][2], Num(i)>>]]

InitFacet ==
    /\ pc = "facet_call"
    /\ \E rows \in FacetRows, c \in {"None", "True"} :
          args = [data |-> FacetFrame(rows), x |-> Key("x"), y |-> Key("value"),
                  style |-> "None", fill |-> TRUE, n_ticks_hint |-> <<>>,
                  is_categorical |-> c]
    /\ heap = NoData
    /\ ret = [err |-> "none", axes |-> <<>>, drawn |-> <<>>, t_vals |-> <<>>,
              x_vals |-> <<>>]
    /\ axes = <<>>
    /\ gca = 0
    /\ ncalls = 0

SpiderplotFacet ==
    /\ pc = "facet_call"
    /\ pc' = "facet_done"
    /\ ret' = SpiderplotFacetCall(args, "col")
    /\ axes' = ret'.axes
    /\ gca' = Len(axes')
    /\ UNCHANGED <<args, heap, ncalls>>

NextFacet == SpiderplotFacet

SpecFacet == InitFacet /\ [][NextFacet]_vars

\* the tick label lbl names the x value c: labels are the x values themselves
\* in categorical mode and computed numbers in numerical mode
LabelIs(lbl, c) == IF args.is_categorical = "True" THEN lbl = c ELSE lbl = Num(c)

\* C8: the faceted variant agrees with the single plot. With the default
\* arguments of spiderplot_facet (is_categorical and n_ticks_hint None), on
\* every facet the tick labelled with x value c is at the angle at which the
\* facet's points with x = c were drawn, and every x value drawn has its tick.
C8_FacetTicksAgree ==
    (pc = "facet_done" /\ args.is_categorical = "None") =>
        /\ ret.err = "ok"
        /\ \A k \in 1..Len(ret.drawn) :
              LET d == ret.drawn[k]
                  t == axes[k].ticks
              IN  \A i \in 1..Len(d.xs) :
                    /\ \E j \in 1..Len(t.labels) : LabelIs(t.labels[j], d.xs[i])
                    /\ \A j \in 1..Len(t.labels) :
                          LabelIs(t.labels[j], d.xs[i]) => t.vals[j] = d.theta[i]

====
